---- MODULE Spec2Model ----
(***************************************************************************)
(* Model of the weather fan-out server of ssray23/weather-web-sockets.      *)
(*                                                                         *)
(* The repository holds two revisions of the server:                       *)
(*   "fixed"   src/server.js           three built-in cities, change-gated  *)
(*                                       poll emission, no registry requests *)
(*   "dynamic" src/unnamed/part_000     empty registry, add_city,            *)
(*                                       delete_city, get_cities, always-emit*)
(* The variable revision selects the program; it never changes.             *)
(*                                                                         *)
(* One action is one run of JavaScript between two suspension points: the   *)
(* synchronous part of a handler up to its await, or the continuation after *)
(* the awaited external call returned.  A handler whose awaited promise is  *)
(* already settled (fetchWeatherData returning null at once) continues in   *)
(* the same action, because microtasks run before any other event.          *)
(***************************************************************************)
EXTENDS Integers, Sequences, FiniteSets, TLC

(* ------------------------------ bounds --------------------------------- *)
\* The clients' requests and the timer ticks are bounded by workloads: how
\* many requests of each kind are still to come.
\* subscribe_city requests, and timer ticks, of the polling workloads
MaxSubscribe == 2
MaxTicks == 1
\* add_city, delete_city and get_cities requests of the polling workload of
\* the dynamic revision
PollAdds == 1
MaxDelete == 1
MaxGet == 1
\* add_city and subscribe_city requests of the mixed workload
MixedAdds == 2
MixedSubscribes == 1
\* add_city requests of the registry workload
RegistryAdds == 4
\* subscribe_city requests, and timer ticks, of the workload of repeated
\* polls of the fixed revision
RepeatSubscribes == 2
RepeatTicks == 2
\* requests and timer ticks of the workload that removes a city and adds it
\* again
ChurnSubscribes == 1
ChurnAdds == 2
ChurnDeletes == 2
ChurnTicks == 1
\* subscribe_city requests of the workload with a timer that keeps firing
SteadySubscribes == 2

(* --------------------------- value universes --------------------------- *)
\* socket ids; every socket connects at most once (a reconnect is a new id),
\* and the ids are handed out in this order
Conns == {"c1", "c2"}
Earlier(c) == IF c = "c2" THEN {"c1"} ELSE {}

\* a message sent without payload (undefined)
Missing == "<undefined>"

\* a property name of Object.prototype, which every plain object inherits
ProtoKeys == {"constructor"}

\* city names a client sends with subscribe_city and delete_city
Names == {"London", "New York", "Tokyo"} \cup ProtoKeys

\* the geocoder found nothing, or the request failed
NoMatch == "<null>"

\* no cache entry (weatherData[city] is undefined), and no fetched record
NoData == [city |-> "<none>", temp |-> 0, humidity |-> 0, timestamp |-> "-"]

\* current.temperature_2m in tenths of a degree, as the weather API may send
RawTemps == {204, 205}

\* what the weather API reports and when the answer is read:
\* current.temperature_2m in tenths of a degree, relative_humidity_2m (which
\* stands for the fields the server passes on or rounds like the
\* temperature), and the time of day that new Date().toLocaleTimeString()
\* gives.  The plain readings differ in the temperature only; the detailed
\* ones also in the humidity alone and in the time alone
PlainReadings ==
    {[tenths |-> t, humidity |-> 60, at |-> "10:00:00"] : t \in RawTemps}
DetailedReadings ==
    PlainReadings \cup {[tenths |-> 204, humidity |-> 61, at |-> "10:00:00"],
                        [tenths |-> 204, humidity |-> 60, at |-> "10:00:30"]}

VARIABLES
    revision,         \* "fixed" (src/server.js) or "dynamic" (part_000)
    alive,            \* FALSE once the node process has terminated
    cityCoordinates,  \* own keys of cityCoordinates, in insertion order
    weatherData,      \* cache: name -> record, NoData where absent
    socketState,      \* socket id -> "new" | "open" | "closed"
    rooms,            \* socket id -> socket.rooms without the socket's own id
    subFetch,         \* subscribe_city handlers awaiting fetchWeatherData
    geoCalls,         \* add_city handlers awaiting geocodeCity
    rounds,           \* interval callbacks in progress
    readings,         \* what the weather API may report in this run
    quota,            \* requests of each kind, and timer ticks, still to come
    last,             \* the handler step that ran last
    emitted,          \* the emit calls of that step, in order
    forcedLeft,       \* socket -> registered cities it was subscribed to when
                      \* they were deleted, and has not subscribed to since
    polled            \* city -> the record its latest successful poll fetch
                      \* returned, and whether updateCityWeather emitted it

vars == <<subFetch, geoCalls, rounds, quota, revision, readings, alive,
          cityCoordinates, weatherData, socketState, rooms, forcedLeft, polled,
          last, emitted>>

(* ------------------------------ helpers -------------------------------- *)
Range(s) == {s[i] : i \in 1..Len(s)}

\* String.prototype.trim on the raw names clients send here
Trim(s) ==
    CASE s = " london " -> "london"
      [] s = "   "      -> ""
      [] OTHER          -> s

\* String.prototype.toLowerCase
ToLowerCase(s) ==
    CASE s = "London"       -> "london"
      [] s = "New York"     -> "new york"
      [] s = "Tokyo"        -> "tokyo"
      [] s = "LaSalle"      -> "lasalle"
      [] s = "Lasalle"      -> "lasalle"
      [] s = "La Salle"     -> "la salle"
      [] s = "Lasalle Gard" -> "lasalle gard"
      [] OTHER              -> s

\* Math.round on a value given in tenths (halves round towards +infinity)
MathRound(tenths) == (tenths + 5) \div 10

\* Object.keys(cityCoordinates)
ObjectKeys == cityCoordinates

\* cityCoordinates[name] is truthy: an own key, or a property inherited from
\* Object.prototype (cityCoordinates is a plain object literal)
HasCoordsIn(reg, name) == name \in Range(reg) \/ name \in ProtoKeys
HasCoords(name) == HasCoordsIn(cityCoordinates, name)

\* delete cityCoordinates[name]: removes an own key, nothing else
DeleteKey(reg, name) == SelectSeq(reg, LAMBDA k : k # name)

\* cityCoordinates[name] = {...}: a new own key goes last, an existing one
\* keeps its place
SetKey(reg, name) == IF name \in Range(reg) THEN reg ELSE Append(reg, name)

IsOpen(c) == socketState[c] = "open"

\* io.sockets.adapter.rooms.get(room): the connected sockets in that room
RoomMembers(room) == {c \in Conns : IsOpen(c) /\ room \in rooms[c]}

(* ------------------------------ emitting ------------------------------- *)
\* socket.emit(ev, arg): delivered only while the socket is connected
SocketEmit(c, ev, arg) ==
    [ev |-> ev, via |-> "socket", dest |-> c,
     rcpt |-> IF IsOpen(c) THEN {c} ELSE {}, arg |-> arg]

\* io.to(room).emit(ev, arg)
RoomEmit(room, ev, arg) ==
    [ev |-> ev, via |-> "room", dest |-> room,
     rcpt |-> RoomMembers(room), arg |-> arg]

\* io.emit(ev, arg)
IoEmit(ev, arg) ==
    [ev |-> ev, via |-> "all", dest |-> "*",
     rcpt |-> {c \in Conns : IsOpen(c)}, arg |-> arg]

(* ---------------------------- weather fetch ---------------------------- *)
\* outcomes of the weather request: transport / non-2xx failure, a body
\* without current.temperature_2m, or a reading
Failures ==
    {[status |-> s, tenths |-> 0, humidity |-> 0, at |-> "-"] :
        s \in {"http_error", "no_temperature"}}
Responses ==
    Failures \cup {[status |-> "ok", tenths |-> r.tenths,
                    humidity |-> r.humidity, at |-> r.at] : r \in readings}

\* what the weather request for a city can return: a request built from an
\* inherited property has latitude=undefined in its URL and gets no record
ResponsesFor(own) == IF own THEN Responses ELSE Failures

\* cityCoordinates[city] is an own key, holding real coordinates
OwnKey(city) == city \in Range(cityCoordinates)

\* fetchWeatherData after the response arrived: the record, or null
IsRecord(resp) == resp.status = "ok"
WeatherRecord(city, resp) ==
    [city |-> city, temp |-> MathRound(resp.tenths),
     humidity |-> resp.humidity, timestamp |-> resp.at]

\* a weather record as the clients get it: socket.io sends the payload as
\* JSON text, where temp is a number literal
OnWire(data) ==
    [city |-> data.city, temp |-> ToString(data.temp),
     humidity |-> data.humidity, timestamp |-> data.timestamp]

\* the fallback payload of subscribe_city, whose temp is the string 'N/A';
\* its timestamp is the time of the reply, whatever that is
Fallback(city) == [city |-> city, temp |-> "N/A", timestamp |-> "<now>"]

\* hasWeatherChanged(oldData, newData): the timestamp is not compared
hasWeatherChanged(oldData, newData) ==
    IF oldData = NoData
    THEN TRUE
    ELSE \/ oldData.temp # newData.temp
         \/ oldData.humidity # newData.humidity

(* -------------------------------- Init --------------------------------- *)
InitWith(rev, q, rd) ==
    /\ revision = rev
    /\ quota = q
    /\ readings = rd
    /\ alive = TRUE
    /\ cityCoordinates = IF revision = "fixed"
                         THEN <<"London", "New York", "Tokyo">>
                         ELSE << >>
    /\ weatherData = [n \in Names |-> NoData]
    /\ socketState = [c \in Conns |-> "new"]
    /\ rooms = [c \in Conns |-> {}]
    /\ subFetch = {}
    /\ geoCalls = {}
    /\ rounds = {}
    /\ last = [op |-> "start", socket |-> "-", arg |-> "-", result |-> "-",
               data |-> NoData]
    /\ emitted = << >>
    /\ forcedLeft = [c \in Conns |-> {}]
    /\ polled = [n \in Names |-> [data |-> NoData, emitted |-> FALSE]]

\* the step that ran last, with the record its weather fetch returned
StepWith(op, c, arg, result, data) ==
    [op |-> op, socket |-> c, arg |-> arg, result |-> result, data |-> data]
Step(op, c, arg, result) == StepWith(op, c, arg, result, NoData)

\* the record a returned fetch gave, NoData for null
Fetched(city, resp) ==
    IF IsRecord(resp) THEN WeatherRecord(city, resp) ELSE NoData

\* a client request is handled only for a connected socket of a live process
CanRequest(c, kind) == alive /\ IsOpen(c) /\ quota[kind] > 0
Spend(kind) == [quota EXCEPT ![kind] = @ - 1]

(* ----------------------------- connection ------------------------------ *)
\* io.on('connection'): the dynamic revision sends the cities list
Connect(c) ==
    /\ alive
    /\ socketState[c] = "new"
    /\ \A e \in Earlier(c) : socketState[e] # "new"
    /\ socketState' = [socketState EXCEPT ![c] = "open"]
    /\ emitted' = IF revision = "dynamic"
                  THEN <<[ev |-> "cities_list", via |-> "socket", dest |-> c,
                          rcpt |-> {c}, arg |-> ObjectKeys]>>
                  ELSE << >>
    /\ last' = Step("connection", c, "-", "ok")
    /\ UNCHANGED <<polled, revision, readings, alive, cityCoordinates, weatherData, rooms, subFetch,
                   geoCalls, rounds, quota, forcedLeft>>

\* the client goes away: socket.io empties socket.rooms, then the handler logs
Disconnect(c) ==
    /\ alive
    /\ IsOpen(c)
    /\ socketState' = [socketState EXCEPT ![c] = "closed"]
    /\ rooms' = [rooms EXCEPT ![c] = {}]
    /\ emitted' = << >>
    /\ last' = Step("disconnect", c, "-", "ok")
    /\ UNCHANGED <<polled, revision, readings, alive, cityCoordinates, weatherData, subFetch,
                   geoCalls, rounds, quota, forcedLeft>>

(* ---------------------------- subscribe_city --------------------------- *)
\* the guard of the dynamic revision; the fixed revision has none
SubscribeRejected(city) ==
    revision = "dynamic" /\ (city = Missing \/ ~HasCoords(city))

\* a subscribe_city that joins the new room without leaving the others
JoinWithoutLeaving(c, city) == [rooms EXCEPT ![c] = @ \cup {city}]

\* socket.rooms.forEach(leave) then socket.join(city)
LeaveAllThenJoin(c, city) == [rooms EXCEPT ![c] = {city}]

\* socket.on('subscribe_city') up to the await of fetchWeatherData(city)
SubscribeCity(c, city) ==
    /\ CanRequest(c, "subscribe")
    /\ quota' = Spend("subscribe")
    /\ IF SubscribeRejected(city)
       THEN /\ emitted' = <<SocketEmit(c, "error", "unknown_city")>>
            /\ last' = Step("subscribe_city", c, city, "rejected")
            /\ UNCHANGED <<rooms, subFetch, forcedLeft>>
       ELSE /\ rooms' = LeaveAllThenJoin(c, city)
            /\ forcedLeft' = [forcedLeft EXCEPT ![c] = @ \ {city}]
            /\ IF city # Missing /\ HasCoords(city)
               THEN \* the weather request goes out
                    /\ subFetch' = subFetch \cup
                                   {[id |-> quota.subscribe, socket |-> c, city |-> city,
                                     own |-> OwnKey(city)]}
                    /\ emitted' = << >>
                    /\ last' = Step("subscribe_city", c, city, "fetching")
               ELSE \* fetchWeatherData returns null without a request
                    /\ emitted' = <<SocketEmit(c, "temperature_update", Fallback(city))>>
                    /\ last' = Step("subscribe_city", c, city, "no_coords")
                    /\ UNCHANGED subFetch
    /\ UNCHANGED <<polled, revision, readings, alive, cityCoordinates, weatherData, socketState,
                   geoCalls, rounds>>

\* the payload sent on success and on failure of the immediate fetch
SubscribeReply(f, resp) ==
    IF IsRecord(resp)
    THEN SocketEmit(f.socket, "temperature_update",
                    OnWire(WeatherRecord(f.city, resp)))
    ELSE SocketEmit(f.socket, "temperature_update", Fallback(f.city))

\* the cache after the immediate fetch of a subscribe_city returned
SubscribeCache(f, resp) ==
    IF IsRecord(resp)
    THEN [weatherData EXCEPT ![f.city] = WeatherRecord(f.city, resp)]
    ELSE weatherData

\* the continuation of subscribe_city after fetchWeatherData returned
SubscribeDone(f, resp) ==
    /\ alive
    /\ f \in subFetch
    /\ resp \in ResponsesFor(f.own)
    /\ subFetch' = subFetch \ {f}
    /\ last' = StepWith("subscribe_done", f.socket, f.city,
                        IF IsRecord(resp) THEN "ok" ELSE "failed",
                        Fetched(f.city, resp))
    /\ weatherData' = SubscribeCache(f, resp)
    /\ emitted' = <<SubscribeReply(f, resp)>>
    /\ UNCHANGED <<polled, revision, readings, alive, cityCoordinates, socketState, rooms, geoCalls,
                   rounds, quota, forcedLeft>>

(* ------------------------------- add_city ------------------------------ *)
\* the limit of the city count check
MaxCities == 3

\* names a client may put in the add_city payload
RawNames == {"   ", " london ", "Tokyo", "New York", "La Salle", "Lasalle Gard"}

\* geocodeCity(cityName): result.name of the first search result, or null
\* when the search finds nothing or the request fails.  The service is a
\* black box; it answers a query with the same place every time
FirstResult(cityName) ==
    CASE cityName = "london"       -> "London"
      [] cityName = "Tokyo"        -> "Tokyo"
      [] cityName = "New York"     -> "New York"
      [] cityName = "La Salle"     -> "LaSalle"
      [] cityName = "Lasalle Gard" -> "Lasalle"
      [] OTHER                     -> NoMatch
geocodeCity(cityName, found) == IF found THEN FirstResult(cityName) ELSE NoMatch

\* !name || typeof name !== 'string' || name.trim().length === 0
InvalidName(name) == name = Missing \/ Trim(name) = ""

\* a first duplicate check that compares the names as they are
ExistingCityExact(reg, trimmedName) ==
    \E i \in 1..Len(reg) : reg[i] = trimmedName

\* Object.keys(cityCoordinates).find(city => city.toLowerCase() ===
\* trimmedName.toLowerCase()) found a city
ExistingCity(reg, trimmedName) ==
    \E i \in 1..Len(reg) : ToLowerCase(reg[i]) = ToLowerCase(trimmedName)

\* the check of the geocoded name before insertion: cityCoordinates[finalCityName]
FinalNameExists(reg, finalCityName) == HasCoordsIn(reg, finalCityName)

\* currentCityCount >= 3
AtCapacity(reg) == Len(reg) >= MaxCities

\* add_city sent without payload: destructuring undefined throws a TypeError
\* inside the async handler and nothing handles the rejected promise.  What
\* node does then depends on its version and flags: it terminates the process
\* (the default since node 15) or only prints a warning
AddCityNoPayload(c) ==
    /\ revision = "dynamic"
    /\ CanRequest(c, "add")
    /\ quota' = Spend("add")
    /\ alive' \in BOOLEAN
    /\ emitted' = << >>
    /\ last' = Step("add_city", c, Missing, "threw")
    /\ UNCHANGED <<polled, revision, readings, cityCoordinates, weatherData, socketState, rooms,
                   subFetch, geoCalls, rounds, forcedLeft>>

\* socket.on('add_city') up to the await of geocodeCity(trimmedName)
AddCity(c, name) ==
    /\ revision = "dynamic"
    /\ CanRequest(c, "add")
    /\ quota' = Spend("add")
    /\ IF InvalidName(name)
       THEN /\ emitted' = <<SocketEmit(c, "error", "name_required")>>
            /\ last' = Step("add_city", c, name, "invalid")
            /\ UNCHANGED geoCalls
       ELSE IF AtCapacity(cityCoordinates)
       THEN /\ emitted' = <<SocketEmit(c, "error", "max_cities")>>
            /\ last' = Step("add_city", c, Trim(name), "full")
            /\ UNCHANGED geoCalls
       ELSE IF ExistingCity(cityCoordinates, Trim(name))
       THEN /\ emitted' = <<SocketEmit(c, "error", "already_exists")>>
            /\ last' = Step("add_city", c, Trim(name), "duplicate")
            /\ UNCHANGED geoCalls
       ELSE /\ emitted' = <<SocketEmit(c, "geocoding", Trim(name))>>
            /\ geoCalls' = geoCalls \cup
                           {[id |-> quota.add, socket |-> c, name |-> Trim(name)]}
            /\ last' = Step("add_city", c, Trim(name), "geocoding")
    /\ UNCHANGED <<polled, revision, readings, alive, cityCoordinates, weatherData, socketState,
                   rooms, subFetch, rounds, forcedLeft>>

\* the continuation of add_city after geocodeCity returned
GeocodeDone(g, found) ==
    /\ alive
    /\ g \in geoCalls
    /\ geoCalls' = geoCalls \ {g}
    /\ LET finalCityName == geocodeCity(g.name, found) IN
       IF finalCityName = NoMatch
       THEN /\ last' = Step("add_city_done", g.socket, finalCityName, "no_match")
            /\ emitted' = <<SocketEmit(g.socket, "error", "no_coordinates")>>
            /\ UNCHANGED cityCoordinates
       ELSE IF FinalNameExists(cityCoordinates, finalCityName)
       THEN /\ last' = Step("add_city_done", g.socket, finalCityName, "duplicate")
            /\ emitted' = <<SocketEmit(g.socket, "error", "already_exists")>>
            /\ UNCHANGED cityCoordinates
       ELSE /\ last' = Step("add_city_done", g.socket, finalCityName, "added")
            /\ cityCoordinates' = SetKey(cityCoordinates, finalCityName)
            /\ emitted' = <<IoEmit("city_added", finalCityName),
                            IoEmit("cities_list", cityCoordinates')>>
    /\ UNCHANGED <<polled, revision, readings, alive, weatherData, socketState, rooms, subFetch,
                   rounds, quota, forcedLeft>>

(* ------------------------------ delete_city ---------------------------- *)
\* socket.on('delete_city'), which has no suspension point
DeleteCity(c, cityName) ==
    /\ revision = "dynamic"
    /\ CanRequest(c, "delete")
    /\ quota' = Spend("delete")
    /\ IF ~(cityName # Missing /\ HasCoords(cityName))
       THEN /\ emitted' = <<SocketEmit(c, "error", "not_found")>>
            /\ last' = Step("delete_city", c, cityName, "not_found")
            /\ UNCHANGED <<cityCoordinates, weatherData, forcedLeft>>
       ELSE /\ cityCoordinates' = DeleteKey(cityCoordinates, cityName)
            /\ weatherData' = [weatherData EXCEPT ![cityName] = NoData]
            /\ emitted' =
                 (IF RoomMembers(cityName) # {}
                  THEN <<RoomEmit(cityName, "city_deleted_active", cityName)>>
                  ELSE << >>)
                 \o <<IoEmit("city_deleted", cityName),
                      IoEmit("cities_list", cityCoordinates')>>
            /\ forcedLeft' = [x \in Conns |->
                                IF x \in RoomMembers(cityName) /\ OwnKey(cityName)
                                THEN forcedLeft[x] \cup {cityName}
                                ELSE forcedLeft[x]]
            /\ last' = Step("delete_city", c, cityName, "deleted")
    /\ UNCHANGED <<polled, revision, readings, alive, socketState, rooms, subFetch, geoCalls,
                   rounds>>

(* ------------------------------ get_cities ----------------------------- *)
GetCities(c) ==
    /\ revision = "dynamic"
    /\ CanRequest(c, "get")
    /\ quota' = Spend("get")
    /\ emitted' = <<SocketEmit(c, "cities_list", ObjectKeys)>>
    /\ last' = Step("get_cities", c, "-", "ok")
    /\ UNCHANGED <<polled, revision, readings, alive, cityCoordinates, weatherData, socketState,
                   rooms, subFetch, geoCalls, rounds, forcedLeft>>

(* -------------------------------- polling ------------------------------ *)
\* getSubscribedCities(): registered cities whose room has a socket in it
getSubscribedCities ==
    SelectSeq(cityCoordinates, LAMBDA city : RoomMembers(city) # {})

\* updateCityWeather decides to store and emit the fetched record
PollEmits(city, resp) ==
    /\ IsRecord(resp)
    /\ revision = "fixed" =>
         hasWeatherChanged(weatherData[city], WeatherRecord(city, resp))

\* the interval callback up to the first await
Tick ==
    /\ alive
    /\ quota.tick > 0
    /\ quota' = Spend("tick")
    /\ emitted' = << >>
    /\ IF getSubscribedCities = << >>
       THEN /\ last' = Step("tick", "-", "-", "skipped")
            /\ UNCHANGED rounds
       ELSE /\ rounds' = rounds \cup
                         {[id |-> quota.tick, pc |-> "fetch",
                           city |-> Head(getSubscribedCities),
                           own |-> TRUE,
                           rest |-> Tail(getSubscribedCities)]}
            /\ last' = Step("tick", "-", Head(getSubscribedCities), "fetching")
    /\ UNCHANGED <<polled, revision, readings, alive, cityCoordinates, weatherData, socketState,
                   rooms, subFetch, geoCalls, forcedLeft>>

\* a loop that gives up its remaining cities when a fetch failed
RoundAbortedByFailure(r, resp) ==
    IF IsRecord(resp)
    THEN [r EXCEPT !.pc = "pause"]
    ELSE [r EXCEPT !.pc = "pause", !.rest = << >>]

\* the for loop after updateCityWeather(city) resolved: on to the pause,
\* whatever the fetch returned
RoundAfterFetch(r, resp) == [r EXCEPT !.pc = "pause"]

\* updateCityWeather(city) after fetchWeatherData returned, up to the pause
PollFetchDone(r, resp) ==
    /\ alive
    /\ r \in rounds
    /\ r.pc = "fetch"
    /\ resp \in ResponsesFor(r.own)
    /\ rounds' = (rounds \ {r}) \cup {RoundAfterFetch(r, resp)}
    /\ IF PollEmits(r.city, resp)
       THEN /\ last' = StepWith("poll_done", "-", r.city, "emitted",
                                 Fetched(r.city, resp))
            /\ weatherData' = [weatherData EXCEPT
                                 ![r.city] = WeatherRecord(r.city, resp)]
            /\ emitted' = <<RoomEmit(r.city, "temperature_update",
                                     OnWire(WeatherRecord(r.city, resp)))>>
       ELSE /\ last' = StepWith("poll_done", "-", r.city,
                                 IF IsRecord(resp) THEN "unchanged" ELSE "failed",
                                 Fetched(r.city, resp))
            /\ emitted' = << >>
            /\ UNCHANGED weatherData
    /\ polled' = IF IsRecord(resp)
                 THEN [polled EXCEPT ![r.city] =
                         [data |-> WeatherRecord(r.city, resp),
                          emitted |-> PollEmits(r.city, resp)]]
                 ELSE polled
    /\ UNCHANGED <<revision, readings, alive, cityCoordinates, socketState, rooms, subFetch,
                   geoCalls, quota, forcedLeft>>

\* after the 500 ms pause: the next city of the round, or the round ends.
\* fetchWeatherData returns null at once for a city without coordinates, and
\* the round goes on to its next pause
PollPauseDone(r) ==
    /\ alive
    /\ r \in rounds
    /\ r.pc = "pause"
    /\ emitted' = << >>
    /\ IF r.rest = << >>
       THEN /\ rounds' = rounds \ {r}
            /\ last' = Step("poll_next", "-", "-", "round_over")
       ELSE IF HasCoords(Head(r.rest))
       THEN /\ rounds' = (rounds \ {r}) \cup
                         {[r EXCEPT !.pc = "fetch", !.city = Head(r.rest),
                                    !.own = OwnKey(Head(r.rest)),
                                    !.rest = Tail(r.rest)]}
            /\ last' = Step("poll_next", "-", Head(r.rest), "fetching")
       ELSE /\ rounds' = (rounds \ {r}) \cup
                         {[r EXCEPT !.city = Head(r.rest), !.rest = Tail(r.rest)]}
            /\ last' = Step("poll_next", "-", Head(r.rest), "no_coords")
    /\ UNCHANGED <<polled, revision, readings, alive, cityCoordinates, weatherData, socketState,
                   rooms, subFetch, geoCalls, quota, forcedLeft>>

(* ----------------------------- specification --------------------------- *)
Connections ==
    \/ \E c \in Conns : Connect(c)
    \/ \E c \in Conns : Disconnect(c)

Subscriptions ==
    \/ \E c \in Conns, city \in Names \cup {Missing} : SubscribeCity(c, city)
    \/ \E f \in subFetch, resp \in Responses : SubscribeDone(f, resp)

Additions ==
    \/ \E c \in Conns : AddCityNoPayload(c)
    \/ \E c \in Conns, name \in RawNames : AddCity(c, name)
    \/ \E g \in geoCalls, found \in BOOLEAN : GeocodeDone(g, found)

Removals ==
    \/ \E c \in Conns, n \in Names : DeleteCity(c, n)

Listings ==
    \/ \E c \in Conns : GetCities(c)

Polling ==
    \/ Tick
    \/ \E r \in rounds, resp \in Responses : PollFetchDone(r, resp)
    \/ \E r \in rounds : PollPauseDone(r)

Next ==
    \/ Connections
    \/ Subscriptions
    \/ Additions
    \/ Removals
    \/ Listings
    \/ Polling

Quota(s, a, d, g, t) ==
    [subscribe |-> s, add |-> a, delete |-> d, get |-> g, tick |-> t]

\* the workloads: the fixed revision and the dynamic revision with
\* subscribers and a poll, the dynamic revision with two additions among a
\* subscribe and a delete, and the dynamic revision filling its registry
Workloads ==
    {[rev |-> "fixed",   quota |-> Quota(MaxSubscribe, 0, 0, 0, MaxTicks)],
     [rev |-> "dynamic", quota |-> Quota(MaxSubscribe, PollAdds, MaxDelete,
                                         MaxGet, MaxTicks)],
     [rev |-> "dynamic", quota |-> Quota(MixedSubscribes, MixedAdds, MaxDelete,
                                         0, 0)],
     [rev |-> "dynamic", quota |-> Quota(0, RegistryAdds, 0, 0, 0)]}

Init == \E w \in Workloads : InitWith(w.rev, w.quota, PlainReadings)

Spec == Init /\ [][Next]_vars

\* every external call returns in the end (the HTTP client times out), and
\* the pause timer fires; each of these steps changes the set of pending
\* continuations it is taken from
Fairness ==
    /\ WF_subFetch(\E f \in subFetch, resp \in Responses : SubscribeDone(f, resp))
    /\ WF_geoCalls(\E g \in geoCalls, found \in BOOLEAN : GeocodeDone(g, found))
    /\ WF_rounds(\E r \in rounds, resp \in Responses : PollFetchDone(r, resp))
    /\ WF_rounds(\E r \in rounds : PollPauseDone(r))

FairSpec == Spec /\ Fairness

\* the fixed revision under repeated polls, with detailed readings; it
\* takes no registry requests
RepeatInit ==
    InitWith("fixed", Quota(RepeatSubscribes, 0, 0, 0, RepeatTicks),
             DetailedReadings)

\* the city the clients of this workload ask for
RepeatCities == {"London"}

RepeatSubscriptions ==
    \/ \E c \in Conns, city \in RepeatCities : SubscribeCity(c, city)
    \/ \E f \in subFetch, resp \in Responses : SubscribeDone(f, resp)

RepeatNext ==
    \/ Connections
    \/ RepeatSubscriptions
    \/ Polling

RepeatSpec == RepeatInit /\ [][RepeatNext]_vars

\* the dynamic revision with one city that comes and goes: every client
\* names the same city, and every payload is an object
ChurnInit ==
    InitWith("dynamic",
             Quota(ChurnSubscribes, ChurnAdds, ChurnDeletes, 0, ChurnTicks),
             PlainReadings)

ChurnCities == {"Tokyo"}

ChurnRequests ==
    \/ \E c \in Conns, city \in ChurnCities : SubscribeCity(c, city)
    \/ \E c \in Conns, name \in ChurnCities : AddCity(c, name)
    \/ \E c \in Conns, city \in ChurnCities : DeleteCity(c, city)

ChurnReturns ==
    \/ \E f \in subFetch, resp \in Responses : SubscribeDone(f, resp)
    \/ \E g \in geoCalls, found \in BOOLEAN : GeocodeDone(g, found)

ChurnNext ==
    \/ Connections
    \/ ChurnRequests
    \/ ChurnReturns
    \/ Polling

ChurnSpec == ChurnInit /\ [][ChurnNext]_vars

\* the fixed revision with a timer that keeps firing, a source whose
\* values for London change once and then stay, and requests that all
\* succeed
SourceBefore == [tenths |-> 204, humidity |-> 60, at |-> "10:00:00"]
SourceAfter == [tenths |-> 205, humidity |-> 60, at |-> "10:00:00"]

SteadyInit ==
    InitWith("fixed", Quota(SteadySubscribes, 0, 0, 0, 1), {SourceBefore})

SteadyCities == {"London"}

\* the weather at the source changes; the server takes no step
SourceChanges ==
    /\ readings = {SourceBefore}
    /\ readings' = {SourceAfter}
    /\ UNCHANGED <<polled, revision, alive, cityCoordinates, weatherData,
                   socketState, rooms, subFetch, geoCalls, rounds, quota,
                   forcedLeft, last, emitted>>

\* setInterval arms the timer again; the interval is long enough for the
\* round to be over before the next tick
TimerRearm ==
    /\ alive
    /\ quota.tick = 0
    /\ rounds = {}
    /\ quota' = [quota EXCEPT !.tick = 1]
    /\ UNCHANGED <<polled, revision, readings, alive, cityCoordinates,
                   weatherData, socketState, rooms, subFetch, geoCalls,
                   rounds, forcedLeft, last, emitted>>

\* responses of requests that succeed
Succeeding == {resp \in Responses : IsRecord(resp)}

SteadySubscriptions ==
    \/ \E c \in Conns, city \in SteadyCities : SubscribeCity(c, city)
    \/ \E f \in subFetch, resp \in Succeeding : SubscribeDone(f, resp)

SteadyPolling ==
    \/ Tick
    \/ TimerRearm
    \/ \E r \in rounds, resp \in Succeeding : PollFetchDone(r, resp)
    \/ \E r \in rounds : PollPauseDone(r)

SteadyNext ==
    \/ Connections
    \/ SteadySubscriptions
    \/ SteadyPolling
    \/ SourceChanges

\* every request returns, the pause timer fires, and the interval timer
\* keeps firing
SteadyFairness ==
    /\ WF_subFetch(\E f \in subFetch, resp \in Succeeding : SubscribeDone(f, resp))
    /\ WF_rounds(\E r \in rounds, resp \in Succeeding : PollFetchDone(r, resp))
    /\ WF_rounds(\E r \in rounds : PollPauseDone(r))
    /\ WF_quota(Tick)
    /\ WF_quota(TimerRearm)

SteadySpec == SteadyInit /\ [][SteadyNext]_vars /\ SteadyFairness

(* ------------------------------- properties ---------------------------- *)
\* the subscriber set of a topic
Subscribers(topic) == RoomMembers(topic)

Registered == Range(cityCoordinates)

\* the subscriber set of a topic in the state a step leads to
SubscribersAfter(topic) ==
    {c \in Conns : socketState'[c] = "open" /\ topic \in rooms'[c]}

\* C1: the registry never holds more than 3 topics.
RegistryWithinLimit == Len(cityCoordinates) <= MaxCities

\* C2: no two registered topics have names that are equal case-insensitively.
NoCaseInsensitiveDuplicates ==
    \A i, j \in 1..Len(cityCoordinates) :
        i # j => ToLowerCase(cityCoordinates[i]) # ToLowerCase(cityCoordinates[j])

\* C3: every key of the snapshot cache is a registered topic; a fetch that
\* returns after its topic was deleted does not put the entry back.
CacheKeysRegistered ==
    \A n \in DOMAIN weatherData : weatherData[n] # NoData => n \in Registered

\* C4: a successful delete_city(X) sends the forced-leave event to the
\* subscribers of X, and a connection that got it receives no weather update
\* for X until it subscribes to X again itself.  Only updates sent to the
\* room of X are counted here, not the reply to a subscribe_city of its own
\* that was still waiting for its fetch.
ForcedLeaveIsFinal ==
    /\ (last.op = "delete_city" /\ last.result = "deleted"
            /\ Subscribers(last.arg) # {}) =>
         /\ emitted[1].ev = "city_deleted_active"
         /\ emitted[1].arg = last.arg
         /\ emitted[1].rcpt = Subscribers(last.arg)
    /\ \A c \in Conns : \A i \in 1..Len(emitted) :
         (emitted[i].ev = "temperature_update" /\ emitted[i].via = "room"
                /\ c \in emitted[i].rcpt)
            => emitted[i].arg.city \notin forcedLeft[c]

\* C5: a socket is in at most one room; a subscribe to a registered topic
\* puts the socket into that topic's subscriber set and into no other, moves
\* no other socket, and changes nothing when the socket is in the set already.
SubscribedToRegistered ==
    /\ last'.op = "subscribe_city"
    /\ last'.arg \in Registered

OnlyErrorToRequester(em, c) ==
    /\ Len(em) = 1
    /\ em[1].ev = "error"
    /\ em[1].via = "socket"
    /\ em[1].dest = c
    /\ em[1].rcpt = {c}

\* C6: an add_city request made while the registry holds 3 topics ends with
\* an error event for the requester alone, calls no geocoder and changes
\* neither the registry nor the cache nor the subscriptions.
AddAtCapacityRejected ==
    [][(last'.op = "add_city" /\ Len(cityCoordinates) = MaxCities) =>
          /\ OnlyErrorToRequester(emitted', last'.socket)
          /\ UNCHANGED <<geoCalls, cityCoordinates, weatherData, rooms>>]_vars

\* the name of an add_city request equals a registered name but for case
CaseInsensitiveEqual(a, b) == ToLowerCase(a) = ToLowerCase(b)
AddOfRegisteredName ==
    /\ last'.op = "add_city"
    /\ last'.result # "threw"
    /\ \E i \in 1..Len(cityCoordinates) :
          CaseInsensitiveEqual(cityCoordinates[i], last'.arg)

\* C7 as claimed: such a request always fails with the duplicate-topic error
\* for the requester and has no side effect.
DuplicateAddRejected ==
    [][AddOfRegisteredName =>
          /\ OnlyErrorToRequester(emitted', last'.socket)
          /\ emitted'[1].arg = "already_exists"
          /\ UNCHANGED <<geoCalls, cityCoordinates, weatherData, rooms>>]_vars

\* C7 as amended: such a request always fails with an error for the
\* requester and has no side effect; the error is the duplicate-topic error
\* while the registry holds fewer than 3 topics and the capacity error
\* otherwise.
DuplicateAddRejectedByKind ==
    [][AddOfRegisteredName =>
          /\ OnlyErrorToRequester(emitted', last'.socket)
          /\ emitted'[1].arg = IF Len(cityCoordinates) < MaxCities
                               THEN "already_exists" ELSE "max_cities"
          /\ UNCHANGED <<geoCalls, cityCoordinates, weatherData, rooms>>]_vars

\* a request for a registered name was answered with the capacity error
DuplicateAddAtCapacity ==
    /\ last.op = "add_city"
    /\ last.result = "full"
    /\ \E i \in 1..Len(cityCoordinates) :
          CaseInsensitiveEqual(cityCoordinates[i], last.arg)

\* C8: a delete_city for a name that is not registered ends with the
\* not-found error for the requester alone and changes neither the registry
\* nor the cache.
DeleteUnknownRejected ==
    [][(last'.op = "delete_city" /\ last'.arg \notin Registered) =>
          /\ OnlyErrorToRequester(emitted', last'.socket)
          /\ emitted'[1].arg = "not_found"
          /\ UNCHANGED <<cityCoordinates, weatherData>>]_vars

\* C9: a subscribe to a registered topic T puts the socket into T's
\* subscriber set at once; its fetch returns in the end, and the handler then
\* makes exactly one emit call, a weather update for the requester with
\* city = T whose temp is the rounded temperature on success and 'N/A' on
\* failure; the cache is written on success only.
FetchPending(id) == \E f \in subFetch : f.id = id /\ f.own

SubscribeAlwaysReplies ==
    /\ [][SubscribedToRegistered =>
            last'.socket \in SubscribersAfter(last'.arg)]_vars
    /\ [][last'.op = "subscribe_done" =>
            /\ Len(emitted') = 1
            /\ emitted'[1].ev = "temperature_update"
            /\ emitted'[1].via = "socket"
            /\ emitted'[1].dest = last'.socket
            /\ emitted'[1].arg.city = last'.arg
            /\ rooms' = rooms
            /\ IF last'.result = "ok"
               THEN \E t \in RawTemps :
                      /\ emitted'[1].arg.temp = ToString(MathRound(t))
                      /\ last'.data.temp = MathRound(t)
                      /\ weatherData' =
                            [weatherData EXCEPT ![last'.arg] = last'.data]
               ELSE /\ emitted'[1].arg.temp = "N/A"
                    /\ weatherData' = weatherData]_vars
    /\ \A id \in 1..MaxSubscribe : FetchPending(id) ~> ~FetchPending(id)

\* C10: a subscribe to a name that is not registered ends with the
\* unknown-topic error; the socket stays in the rooms it was in, no fetch is
\* issued and the cache is unchanged.
SubscribeUnknownRejected ==
    [][(last'.op = "subscribe_city" /\ last'.arg \notin Registered) =>
          /\ OnlyErrorToRequester(emitted', last'.socket)
          /\ UNCHANGED <<rooms, subFetch, weatherData>>]_vars

\* the subscriber set of a topic as delete_city is specified: a connection
\* in the topic's room that has subscribed to it itself since the topic was
\* last deleted under it
CurrentSubscribers(topic) ==
    {c \in Subscribers(topic) : topic \notin forcedLeft[c]}

\* the registered topics with at least one connected subscriber
ActiveTopics == {t \in Registered : CurrentSubscribers(t) # {}}

\* C11: getSubscribedCities gives exactly the registered topics that have at
\* least one currently connected subscriber.
ActiveTopicsExact == Range(getSubscribedCities) = ActiveTopics

\* two records differ in a field the change-gated policy looks at (of the
\* seven, the model carries temp and humidity)
DiffersInComparedField(a, b) == a.temp # b.temp \/ a.humidity # b.humidity

\* a poll fetch returned a record in this step
SuccessfulPoll == last'.op = "poll_done" /\ last'.data # NoData

\* the step emitted the fetched record to the room of its city, and nothing
\* else
EmitsFetchedToRoom ==
    /\ Len(emitted') = 1
    /\ emitted'[1].ev = "temperature_update"
    /\ emitted'[1].via = "room"
    /\ emitted'[1].dest = last'.arg
    /\ emitted'[1].rcpt = Subscribers(last'.arg)
    /\ emitted'[1].arg = OnWire(last'.data)

\* a successful poll emits if and only if nothing is cached for the city or
\* the fetched record differs from the cached one in a compared field
EmitsIffChangedAgainstCache ==
    [][(revision = "fixed" /\ SuccessfulPoll) =>
          /\ emitted' # << >> <=>
                \/ weatherData[last'.arg] = NoData
                \/ DiffersInComparedField(weatherData[last'.arg], last'.data)
          /\ emitted' # << >> => EmitsFetchedToRoom]_vars

\* C12: under the change-gated policy a successful poll of T emits to the
\* subscribers of T if and only if nothing is cached for T or the fetched
\* record differs from the cached one in a compared field; so of two
\* consecutive polls of T that return identical records at most one emits,
\* and a poll whose temp differs from that of the poll before it emits the
\* new record.
ChangeGatedEmission ==
    /\ EmitsIffChangedAgainstCache
    /\ [][(revision = "fixed" /\ SuccessfulPoll
             /\ polled[last'.arg].data # NoData) =>
            LET before == polled[last'.arg] IN
            /\ ~DiffersInComparedField(before.data, last'.data)
                  => ~(before.emitted /\ emitted' # << >>)
            /\ before.data.temp # last'.data.temp => EmitsFetchedToRoom]_vars

\* a fetch of a registered city, of the poller or of a subscribe_city,
\* returned a record in this step
SuccessfulFetch ==
    /\ last'.op \in {"poll_done", "subscribe_done"}
    /\ last'.data # NoData
    /\ last'.arg \in Registered

\* C13: under either emission policy, when a successful fetch of a
\* registered topic T completes, the cache entry of T is the whole record
\* that fetch returned, its timestamp included.
CacheHoldsLatestFetch ==
    [][SuccessfulFetch => weatherData'[last'.arg] = last'.data]_vars

\* a poll fetch failed in this step
FailedPoll == last'.op = "poll_done" /\ last'.result = "failed"

HandlersNeverThrow == alive /\ last.result # "threw"

\* a delete_city for a registered city went through in this step
DeletedRegistered ==
    /\ last'.op = "delete_city"
    /\ last'.result = "deleted"
    /\ last'.arg \in Registered

Connected == {c \in Conns : IsOpen(c)}

\* C16: a successful delete_city(X) first sends the forced-leave event to
\* exactly the subscribers X has at that moment (to nobody if it has none),
\* then city_deleted(X) and cities_list to all connections; the list is the
\* registry without X, in insertion order, and the cache entry of X is gone.
DeleteNotifiesSubscribers ==
    [][DeletedRegistered =>
          LET X == last'.arg
              n == Len(emitted')
          IN /\ cityCoordinates' = SelectSeq(cityCoordinates, LAMBDA k : k # X)
             /\ X \notin Range(cityCoordinates')
             /\ weatherData'[X] = NoData
             /\ n = IF CurrentSubscribers(X) = {} THEN 2 ELSE 3
             /\ n = 3 =>
                   /\ emitted'[1].ev = "city_deleted_active"
                   /\ emitted'[1].arg = X
                   /\ emitted'[1].rcpt = CurrentSubscribers(X)
             /\ emitted'[n - 1].ev = "city_deleted"
             /\ emitted'[n - 1].arg = X
             /\ emitted'[n - 1].rcpt = Connected
             /\ emitted'[n].ev = "cities_list"
             /\ emitted'[n].arg = cityCoordinates'
             /\ emitted'[n].rcpt = Connected]_vars

\* the registered cities with a subscriber, in insertion order
ActiveInOrder ==
    SelectSeq(cityCoordinates, LAMBDA t : CurrentSubscribers(t) # {})

\* C17: a tick starts a round over exactly the registered topics that have a
\* subscriber at that moment, in registry insertion order, and no round and
\* no request at all when there is none; a round takes its cities one after
\* another in that order.
PollTargetsActiveTopics ==
    /\ [][last'.op = "tick" =>
            IF ActiveInOrder = << >>
            THEN UNCHANGED <<rounds, subFetch, geoCalls>>
            ELSE \E n \in rounds' \ rounds :
                    /\ rounds' = rounds \cup {n}
                    /\ n.pc = "fetch"
                    /\ <<n.city>> \o n.rest = ActiveInOrder]_vars
    /\ [][(last'.op = "poll_next" /\ last'.result = "fetching") =>
            \E r \in rounds :
               /\ r.pc = "pause"
               /\ r.rest # << >>
               /\ last'.arg = Head(r.rest)
               /\ [r EXCEPT !.pc = "fetch", !.city = Head(r.rest),
                            !.own = OwnKey(Head(r.rest)),
                            !.rest = Tail(r.rest)] \in rounds']_vars

\* C18: a weather update for a topic is delivered only to connections whose
\* current subscription is that topic, whatever the interleaving of
\* subscribe requests, their fetches and the poll rounds.
UpdatesOnlyToCurrentSubscription ==
    \A i \in 1..Len(emitted) :
       emitted[i].ev = "temperature_update" =>
          \A c \in emitted[i].rcpt : emitted[i].arg.city \in rooms[c]

\* the poll-originated fetches in flight
PollFetches == {r \in rounds : r.pc = "fetch"}

\* C19: polling is never parallel: at most one round is in progress and at
\* most one fetch started by a poll is in flight, so the round a tick has
\* just started is the only one there is.
PollingNeverParallel ==
    /\ Cardinality(rounds) <= 1
    /\ Cardinality(PollFetches) <= 1
    /\ (last.op = "tick" /\ last.result = "fetching") => Cardinality(rounds) = 1

\* the connection is sent a weather update for the city with the
\* temperature the source has after its change
ReceivesNewValues(c, city) ==
    \E i \in 1..Len(emitted) :
       /\ emitted[i].ev = "temperature_update"
       /\ c \in emitted[i].rcpt
       /\ emitted[i].arg.city = city
       /\ emitted[i].arg.temp = ToString(MathRound(SourceAfter.tenths))

\* the source has changed and the connection is subscribed to the city
SubscribedAfterChange(c, city) ==
    readings = {SourceAfter} /\ c \in Subscribers(city)

\* polls of the city keep returning a record
PollsKeepSucceeding(city) ==
    []<>(last.op = "poll_done" /\ last.arg = city /\ last.data # NoData)

\* C20: in the change-gated revision, when the source values of a city
\* change and then stay, every connection that stays subscribed to the city
\* is in the end sent a weather update with the new values, provided the
\* polls of the city keep succeeding.
NewValuesReachSubscribers ==
    \A c \in Conns, city \in SteadyCities :
       (PollsKeepSucceeding(city) /\ <>[]SubscribedAfterChange(c, city))
          => <>ReceivesNewValues(c, city)

====
